---- MODULE Spec2Model ----
(***************************************************************************)
(* First-fit heap allocator of lib/malloc.c (linmo), modelled at the level *)
(* of memory words.  Memory is a function from word-aligned byte addresses *)
(* to 32-bit values; a header occupies two words (next, size) exactly as   *)
(* struct __memblock lays them out on the 32-bit target, so that stale     *)
(* headers, payload bytes and pointer arithmetic behave as in the code.    *)
(***************************************************************************)
EXTENDS Integers, Sequences, FiniteSets, TLC

NULL == 0

\* sizeof(size_t) on the 32-bit target: the alignment unit of IS_VALID_BLOCK.
W == 4

\* sizeof(memblock_t): a 4-byte next pointer and a 4-byte size word.
sizeof_memblock_t == 8

\* include/lib/malloc.h is not part of the sources at hand; values per the spec.
MALLOC_MIN_SIZE == 8

MALLOC_MAX_SIZE == 1073741824

COALESCE_THRESHOLD == 8

\* Address the bootstrap code hands to mo_heap_init as the zone (word-aligned).
ZoneBase == 4 * W

\* Length of the small zone (bytes): room for three minimum blocks.
SmallLen == 64

\* Length of the large zone (bytes): room for nine free blocks at once.
BigLen == 168

\* Length of the zone of the specification's concrete scenarios (bytes).
ScenarioLen == 256

\* Number of blocks the scenario's caller holds at one time.
MaxHeld == 3

\* Number of blocks the large zone's caller holds at one time.
MaxBigHeld == 2

\* Number of stores into payloads the callers make in one run.
MaxWrites == 1

\* Cap on free_blocks_count under which a wild free is still explored.
MaxWildCount == 3

VARIABLES
    mem,                \* the zone's words: [word-aligned address -> value]
    first_free,         \* static memblock_t *first_free
    heap_start,         \* static void *heap_start
    heap_end,           \* static void *heap_end
    free_blocks_count,  \* static uint32_t free_blocks_count
    live,               \* [payload pointer a caller owns -> bytes it was given there]
    freed,              \* pointers freed whose header address no allocation reused
    asked,              \* [pointer owned -> size passed to the malloc that returned it, else 0]
    pending,            \* the realloc call preempted after its tests, or NoCall
    writes,             \* stores the callers made into their payloads so far
    panicked,           \* panic(ERR_HEAP_CORRUPT) was reached (it never returns)
    faulted,            \* a call trapped on an unmapped load or loops for ever
    last                \* the call that produced this state, and its result

vars == <<mem, first_free, heap_start, heap_end, free_blocks_count,
          live, freed, asked, pending, writes, panicked, faulted, last>>

--------------------------------------------------------------------------
(* Arithmetic helpers *)

\* include/private/utils.h is not part of the sources; the spec's malloc
\* normalisation ("round size up to a multiple of W") gives the macro.
ALIGN4(x) == ((x + 3) \div 4) * 4

min(a, b) == IF a < b THEN a ELSE b

\* F applied to the value of v: v is computed once, before F uses it, as a C
\* statement's result is before the statements that follow it.
Bind(v, F(_)) == CHOOSE r \in {F(x) : x \in {v}} : TRUE

\* free_blocks_count is a uint32_t.  Its 32 bits are kept as the integer of the
\* same bit pattern in -2^31 .. 2^31 - 1, so 0 - 1 wraps to the pattern of
\* 0xFFFFFFFF (written -1) and the comparisons below are the unsigned ones.
Inc32(c) == c + 1
Dec32(c) == c - 1
U32_GT(a, b) == IF (a < 0) = (b < 0) THEN a > b ELSE a < 0

\* The uint32_t product a * b of two values below 2^31: the low 32 bits of the
\* product, worked out byte by byte, as the integer of the same bit pattern.
Byte(x, i) == (x \div (256 ^ i)) % 256

Mul32(a, b) ==
    LET c0 == Byte(a, 0) * Byte(b, 0)
        c1 == Byte(a, 0) * Byte(b, 1) + Byte(a, 1) * Byte(b, 0)
        c2 == Byte(a, 0) * Byte(b, 2) + Byte(a, 1) * Byte(b, 1)
                  + Byte(a, 2) * Byte(b, 0)
        c3 == Byte(a, 0) * Byte(b, 3) + Byte(a, 1) * Byte(b, 2)
                  + Byte(a, 2) * Byte(b, 1) + Byte(a, 3) * Byte(b, 0)
        t1 == c1 + (c0 \div 256)
        t2 == c2 + (t1 \div 256)
        t3 == c3 + (t2 \div 256)
        r3 == t3 % 256
    IN  (IF r3 >= 128 THEN r3 - 256 ELSE r3) * 16777216
            + (t2 % 256) * 65536 + (t1 % 256) * 256 + (c0 % 256)

--------------------------------------------------------------------------
(* The running call's view of the machine.                                 *)
(*   mem   the zone's words                                                *)
(*   cnt   free_blocks_count                                               *)
(*   crit  CRITICAL_ENTERs minus CRITICAL_LEAVEs issued by this call       *)
(*   bad   a heap word or the counter was written while crit < 1           *)
(*   low   a CRITICAL_LEAVE was issued while crit < 1                      *)
(*   panic panic() was reached                                             *)
(*   fault a load from an address that is not memory trapped, or a walk    *)
(*         goes around a cycle for ever: the call never returns            *)
(*   out   value of the words that follow the zone, which are memory the   *)
(*         allocator does not own                                          *)

Machine(outside) ==
    [mem |-> mem, cnt |-> free_blocks_count, crit |-> 0, bad |-> FALSE,
     low |-> FALSE, panic |-> FALSE, fault |-> FALSE, out |-> outside]

Rd(h, a) == IF a \in DOMAIN h.mem THEN h.mem[a] ELSE h.out

\* A write to a header word.
Store(h, a, v) ==
    [h EXCEPT !.mem = [x \in DOMAIN h.mem |-> IF x = a THEN v ELSE h.mem[x]],
              !.bad = h.bad \/ (h.crit < 1)]

\* A write to free_blocks_count.
SetCount(h, c) == [h EXCEPT !.cnt = c, !.bad = h.bad \/ (h.crit < 1)]

\* A write to payload bytes (memset, memcpy, the caller's own stores).
Poke(h, a, v) ==
    [h EXCEPT !.mem = [x \in DOMAIN h.mem |-> IF x = a THEN v ELSE h.mem[x]]]

CRITICAL_ENTER(h) == [h EXCEPT !.crit = h.crit + 1]
CRITICAL_LEAVE(h) == [h EXCEPT !.crit = h.crit - 1, !.low = h.low \/ (h.crit < 1)]
panic(h) == [h EXCEPT !.panic = TRUE]
fault(h) == [h EXCEPT !.fault = TRUE]
Halted(h) == h.panic \/ h.fault

\* Memory holds the zone and the header-sized words after it; any other
\* address a broken link may hold (0 + small offsets here) is not memory.
Mapped(h, a) == a \in DOMAIN h.mem \/ a = heap_end \/ a = heap_end + W

--------------------------------------------------------------------------
(* Block manipulation macros *)

NextOf(h, b) == Rd(h, b)
SizeWord(h, b) == Rd(h, b + W)

IS_USED(h, b) == SizeWord(h, b) % 2
GET_SIZE(h, b) == SizeWord(h, b) - (SizeWord(h, b) % 2)
MARK_USED(h, b) == Store(h, b + W, GET_SIZE(h, b) + 1)
MARK_FREE(h, b) == Store(h, b + W, GET_SIZE(h, b))

IS_VALID_BLOCK(b) == b >= heap_start /\ b < heap_end /\ b % W = 0

validate_block(h, block) ==
    /\ IS_VALID_BLOCK(block)
    /\ GET_SIZE(h, block) # 0
    /\ GET_SIZE(h, block) <= MALLOC_MAX_SIZE
    /\ block + sizeof_memblock_t + GET_SIZE(h, block) <= heap_end
    /\ (NextOf(h, block) # NULL =>
          block + sizeof_memblock_t + GET_SIZE(h, block) = NextOf(h, block))

--------------------------------------------------------------------------
(* free *)

\* p absorbs p->next: the two stores and the decrement of a merge.
MergeNext(h, p) ==
    LET n == NextOf(h, p)
    IN  Bind(Store(h, p + W, GET_SIZE(h, p) + sizeof_memblock_t + GET_SIZE(h, n)),
             LAMBDA h1 :
        Bind(Store(h1, p, NextOf(h1, n)), LAMBDA h2 :
        SetCount(h2, Dec32(h2.cnt))))

\* The predecessor walk of free: while (current && current != p).
\* Yields prev, or Trap when current->next is loaded from no memory, or Spin
\* when the walk goes around a cycle of next pointers and never ends (it has
\* then made more steps than the zone has words).
Trap == -1
Spin == -2
RECURSIVE FindPrev(_, _, _, _, _)
FindPrev(h, prev, current, p, steps) ==
    IF current # NULL /\ current # p
    THEN IF ~Mapped(h, current) THEN Trap
         ELSE IF steps > Cardinality(DOMAIN h.mem) THEN Spin
         ELSE Bind(NextOf(h, current), LAMBDA n : FindPrev(h, current, n, p, steps + 1))
    ELSE prev

\* Lines 95-114: the predecessor walk and the backward merge.
\* A free that leaves out the backward merge of lines 103-112.
FreeBackwardSkipped(h4, p) == CRITICAL_LEAVE(h4)

FreeBackward(h4, p) ==
    Bind(FindPrev(h4, NULL, first_free, p, 0), LAMBDA prev :
    IF prev = Trap \/ prev = Spin THEN fault(h4)
    ELSE IF prev # NULL /\ IS_USED(h4, prev) = 0
    THEN IF ~validate_block(h4, prev)
         THEN panic(CRITICAL_LEAVE(h4))
         ELSE
         Bind(Store(h4, prev + W,
                    GET_SIZE(h4, prev) + sizeof_memblock_t + GET_SIZE(h4, p)),
              LAMBDA h5 :
         Bind(Store(h5, prev, NextOf(h5, p)), LAMBDA h6 :
         Bind(SetCount(h6, Dec32(h6.cnt)), LAMBDA h7 :
         CRITICAL_LEAVE(h7))))
    ELSE CRITICAL_LEAVE(h4))

free(h0, ptr) ==
    IF ptr = NULL THEN h0
    ELSE
    LET p == ptr - sizeof_memblock_t
    IN  Bind(CRITICAL_ENTER(h0), LAMBDA h1 :
        IF ~validate_block(h1, p) \/ IS_USED(h1, p) = 0
        THEN panic(CRITICAL_LEAVE(h1))
        ELSE
        Bind(MARK_FREE(h1, p), LAMBDA h2 :
        Bind(SetCount(h2, Inc32(h2.cnt)), LAMBDA h3 :
        Bind(IF NextOf(h3, p) # NULL /\ IS_USED(h3, NextOf(h3, p)) = 0
             THEN MergeNext(h3, p)
             ELSE h3,
             LAMBDA h4 : FreeBackward(h4, p)))))

--------------------------------------------------------------------------
(* selective_coalesce *)

RECURSIVE SweepFrom(_, _)
\* A sweep that moves on after each merge, so it absorbs at most every other
\* free successor.
RECURSIVE SweepOnce(_, _)
SweepOnce(h, p) ==
    IF p = NULL THEN h
    ELSE IF ~Mapped(h, p) THEN fault(h)
    ELSE IF NextOf(h, p) = NULL THEN h
    ELSE IF ~validate_block(h, p) THEN panic(h)
    ELSE IF IS_USED(h, p) = 0 /\ IS_USED(h, NextOf(h, p)) = 0
         THEN Bind(MergeNext(h, p), LAMBDA h1 :
              Bind(NextOf(h1, p), LAMBDA n : SweepOnce(h1, n)))
         ELSE Bind(NextOf(h, p), LAMBDA n : SweepOnce(h, n))

SweepFrom(h, p) ==
    IF p = NULL THEN h
    ELSE IF ~Mapped(h, p) THEN fault(h)
    ELSE IF NextOf(h, p) = NULL THEN h
    ELSE IF ~validate_block(h, p) THEN panic(h)
    ELSE IF IS_USED(h, p) = 0 /\ IS_USED(h, NextOf(h, p)) = 0
         THEN Bind(MergeNext(h, p), LAMBDA h1 : SweepFrom(h1, p))
         ELSE Bind(NextOf(h, p), LAMBDA n : SweepFrom(h, n))

selective_coalesce(h) == SweepFrom(h, first_free)

--------------------------------------------------------------------------
(* split_block *)

\* A split that carves nothing off: the block is handed out whole.
split_never(h, block, size) == h

\* A split that carves off any remainder that holds a header and a word.
split_eager(h, block, size) ==
    IF size > GET_SIZE(h, block) THEN panic(h)
    ELSE
    LET remaining == GET_SIZE(h, block) - size
        new_block == block + sizeof_memblock_t + size
    IN  IF remaining < sizeof_memblock_t + W THEN h
        ELSE
        Bind(Store(h, new_block, NextOf(h, block)), LAMBDA h1 :
        Bind(Store(h1, new_block + W, remaining - sizeof_memblock_t), LAMBDA h2 :
        Bind(MARK_FREE(h2, new_block), LAMBDA h3 :
        Bind(Store(h3, block, new_block), LAMBDA h4 :
        Bind(Store(h4, block + W, size + IS_USED(h4, block)), LAMBDA h5 :
        SetCount(h5, Inc32(h5.cnt)))))))

split_block(h, block, size) ==
    IF size > GET_SIZE(h, block) THEN panic(h)
    ELSE
    LET remaining == GET_SIZE(h, block) - size
        new_block == block + sizeof_memblock_t + size
    IN  IF remaining < sizeof_memblock_t + MALLOC_MIN_SIZE THEN h
        ELSE
        Bind(Store(h, new_block, NextOf(h, block)), LAMBDA h1 :
        Bind(Store(h1, new_block + W, remaining - sizeof_memblock_t), LAMBDA h2 :
        Bind(MARK_FREE(h2, new_block), LAMBDA h3 :
        Bind(Store(h3, block, new_block), LAMBDA h4 :
        Bind(Store(h4, block + W, size + IS_USED(h4, block)), LAMBDA h5 :
        SetCount(h5, Inc32(h5.cnt)))))))

--------------------------------------------------------------------------
(* malloc *)

\* The first-fit walk: while (p) { validate; fit? ; p = p->next }.
RECURSIVE MallocWalk(_, _, _)
\* Whether a block from p on is free and holds size bytes.
RECURSIVE FitsFrom(_, _, _, _)
FitsFrom(h, p, size, fuel) ==
    IF p = NULL \/ fuel = 0 \/ ~validate_block(h, p) THEN FALSE
    ELSE IF IS_USED(h, p) = 0 /\ GET_SIZE(h, p) >= size THEN TRUE
    ELSE Bind(NextOf(h, p), LAMBDA n : FitsFrom(h, n, size, fuel - 1))

\* A search that takes the last fitting block of the list, not the first.
RECURSIVE MallocWalkLast(_, _, _)
MallocWalkLast(h, p, size) ==
    IF p = NULL THEN [h |-> CRITICAL_LEAVE(h), ret |-> NULL]
    ELSE IF ~validate_block(h, p)
    THEN [h |-> panic(CRITICAL_LEAVE(h)), ret |-> NULL]
    ELSE IF /\ IS_USED(h, p) = 0 /\ GET_SIZE(h, p) >= size
            /\ ~FitsFrom(h, NextOf(h, p), size, Cardinality(DOMAIN h.mem))
    THEN Bind(split_block(h, p, size), LAMBDA h1 :
         IF Halted(h1) THEN [h |-> h1, ret |-> NULL]
         ELSE
         Bind(MARK_USED(h1, p), LAMBDA h2 :
         IF ~U32_GT(h2.cnt, 0) THEN [h |-> panic(h2), ret |-> NULL]
         ELSE Bind(SetCount(h2, Dec32(h2.cnt)), LAMBDA h3 :
              [h |-> CRITICAL_LEAVE(h3), ret |-> p + sizeof_memblock_t])))
    ELSE Bind(NextOf(h, p), LAMBDA n : MallocWalkLast(h, n, size))

MallocWalk(h, p, size) ==
    IF p = NULL THEN [h |-> CRITICAL_LEAVE(h), ret |-> NULL]
    ELSE IF ~validate_block(h, p)
    THEN [h |-> panic(CRITICAL_LEAVE(h)), ret |-> NULL]
    ELSE IF IS_USED(h, p) = 0 /\ GET_SIZE(h, p) >= size
    THEN Bind(split_block(h, p, size), LAMBDA h1 :
         IF Halted(h1) THEN [h |-> h1, ret |-> NULL]
         ELSE
         Bind(MARK_USED(h1, p), LAMBDA h2 :
         IF ~U32_GT(h2.cnt, 0) THEN [h |-> panic(h2), ret |-> NULL]
         ELSE Bind(SetCount(h2, Dec32(h2.cnt)), LAMBDA h3 :
              [h |-> CRITICAL_LEAVE(h3), ret |-> p + sizeof_memblock_t])))
    ELSE Bind(NextOf(h, p), LAMBDA n : MallocWalk(h, n, size))

\* A malloc without the size test of lines 166-167.
malloc_unchecked(h0, size0) ==
    LET sa   == ALIGN4(size0)
        size == IF sa < MALLOC_MIN_SIZE THEN MALLOC_MIN_SIZE ELSE sa
    IN  Bind(CRITICAL_ENTER(h0), LAMBDA h1 :
        Bind(IF U32_GT(h1.cnt, COALESCE_THRESHOLD) THEN selective_coalesce(h1) ELSE h1,
             LAMBDA h2 :
        IF Halted(h2) THEN [h |-> h2, ret |-> NULL]
        ELSE MallocWalk(h2, first_free, size)))

malloc(h0, size0) ==
    IF size0 = 0 \/ size0 > MALLOC_MAX_SIZE THEN [h |-> h0, ret |-> NULL]
    ELSE
    LET sa   == ALIGN4(size0)
        size == IF sa < MALLOC_MIN_SIZE THEN MALLOC_MIN_SIZE ELSE sa
    IN  Bind(CRITICAL_ENTER(h0), LAMBDA h1 :
        Bind(IF U32_GT(h1.cnt, COALESCE_THRESHOLD) THEN selective_coalesce(h1) ELSE h1,
             LAMBDA h2 :
        IF Halted(h2) THEN [h |-> h2, ret |-> NULL]
        ELSE MallocWalk(h2, first_free, size)))

--------------------------------------------------------------------------
(* mo_heap_init *)

ZoneWords(zone, len) == {a \in zone..(zone + ALIGN4(len) - 1) : a % W = 0}

\* The statics before mo_heap_init ran (zero-initialised) over a zeroed zone.
Boot(zone, len) ==
    [mem |-> [a \in ZoneWords(zone, len) |-> 0],
     first_free |-> NULL, heap_start |-> NULL, heap_end |-> NULL, cnt |-> 0]

mo_heap_init(b, zone, len0) ==
    IF zone = NULL \/ len0 < 2 * sizeof_memblock_t + MALLOC_MIN_SIZE THEN b
    ELSE
    LET len   == ALIGN4(len0)
        start == zone
        end   == zone + len - sizeof_memblock_t
        m1    == [b.mem EXCEPT ![start] = end,
                               ![start + W] = len - 2 * sizeof_memblock_t,
                               ![end] = NULL,
                               ![end + W] = 1]
    IN  [mem |-> m1, first_free |-> start, heap_start |-> zone,
         heap_end |-> end + sizeof_memblock_t, cnt |-> 1]

--------------------------------------------------------------------------
(* calloc *)

\* memset(buf, 0, n) / memcpy(dst, src, n) over whole words (n is a multiple of W).
memset0(h, buf, n) ==
    [h EXCEPT !.mem = [x \in DOMAIN h.mem |->
                          IF x >= buf /\ x < buf + n THEN 0 ELSE h.mem[x]]]

\* A copy that copies nothing.
memcpy_none(h, dst, src, n) == h

memcpy(h, dst, src, n) ==
    [h EXCEPT !.mem = [x \in DOMAIN h.mem |->
                          IF x >= dst /\ x < dst + n
                          THEN Rd(h, src + (x - dst)) ELSE h.mem[x]]]

\* A calloc without the overflow test of lines 238-239.
calloc_unguarded(h0, nmemb, size) ==
    Bind(ALIGN4(Mul32(nmemb, size)), LAMBDA total_size :
    Bind(malloc(h0, total_size), LAMBDA r :
    IF Halted(r.h) \/ r.ret = NULL THEN r
    ELSE [h |-> memset0(r.h, r.ret, total_size), ret |-> r.ret]))

calloc(h0, nmemb, size) ==
    IF nmemb # 0 /\ size > MALLOC_MAX_SIZE \div nmemb THEN [h |-> h0, ret |-> NULL]
    ELSE
    Bind(ALIGN4(Mul32(nmemb, size)), LAMBDA total_size :
    Bind(malloc(h0, total_size), LAMBDA r :
    IF Halted(r.h) \/ r.ret = NULL THEN r
    ELSE [h |-> memset0(r.h, r.ret, total_size), ret |-> r.ret]))

--------------------------------------------------------------------------
(* realloc *)

\* The tail shared by both fast paths: split, optional sweep, CRITICAL_LEAVE.
ReallocFinish(h, old_block, size) ==
    Bind(split_block(h, old_block, size), LAMBDA h1 :
    Bind(IF Halted(h1) THEN h1
         ELSE IF U32_GT(h1.cnt, COALESCE_THRESHOLD) THEN selective_coalesce(h1)
         ELSE h1,
         LAMBDA h2 :
    IF Halted(h2) THEN [h |-> h2, ret |-> NULL]
    ELSE [h |-> CRITICAL_LEAVE(h2), ret |-> old_block + sizeof_memblock_t]))

\* Lines 292-294: the block can grow into a free successor.
GrowsInPlace(h0, old_block, size) ==
    LET nxt == NextOf(h0, old_block)
    IN  /\ nxt # NULL
        /\ IS_USED(h0, nxt) = 0
        /\ GET_SIZE(h0, old_block) + sizeof_memblock_t + GET_SIZE(h0, nxt) >= size

\* Lines 295-304: the merge with the successor nxt, sum being the value of
\* GET_SIZE(old_block) + sizeof(memblock_t) + GET_SIZE(old_block->next).
ReallocGrow(h0, old_block, size, nxt, sum) ==
    Bind(Store(h0, old_block + W, sum), LAMBDA h1 :
    Bind(Store(h1, old_block, NextOf(h1, nxt)), LAMBDA h2 :
    Bind(SetCount(h2, Dec32(h2.cnt)), LAMBDA h3 :
    ReallocFinish(h3, old_block, size))))

realloc(h0, ptr, size0) ==
    IF size0 > MALLOC_MAX_SIZE THEN [h |-> h0, ret |-> NULL]
    ELSE IF ptr = NULL THEN malloc(h0, size0)
    ELSE IF size0 = 0 THEN [h |-> free(h0, ptr), ret |-> NULL]
    ELSE
    LET size      == ALIGN4(size0)
        old_block == ptr - sizeof_memblock_t
    IN  IF ~validate_block(h0, old_block) \/ IS_USED(h0, old_block) = 0
        THEN [h |-> panic(h0), ret |-> NULL]
        ELSE
        LET old_size == GET_SIZE(h0, old_block)
            nxt      == NextOf(h0, old_block)
        IN  IF size <= old_size /\
               old_size - size < sizeof_memblock_t + MALLOC_MIN_SIZE
            THEN [h |-> h0, ret |-> ptr]
            ELSE IF size <= old_size
            THEN ReallocFinish(h0, old_block, size)
            ELSE IF GrowsInPlace(h0, old_block, size)
            THEN ReallocGrow(h0, old_block, size, nxt,
                             GET_SIZE(h0, old_block) + sizeof_memblock_t
                                 + GET_SIZE(h0, nxt))
            ELSE Bind(malloc(h0, size), LAMBDA r :
                 IF Halted(r.h) \/ r.ret = NULL THEN r
                 ELSE Bind(memcpy(r.h, r.ret, ptr, min(old_size, size)), LAMBDA h1 :
                      Bind(free(h1, ptr), LAMBDA h2 :
                      [h |-> h2, ret |-> r.ret])))

--------------------------------------------------------------------------
(* The callers.  A caller owns the bytes it asked for at the pointer it was *)
(* given (kept to whole words) and stores only there; it frees and          *)
(* reallocates only pointers it owns.                                       *)

max(a, b) == IF a > b THEN a ELSE b

Given(lv, ret, n) ==
    [q \in DOMAIN lv \cup {ret} |->
        IF q = ret THEN (IF ret \in DOMAIN lv THEN max(lv[ret], n) ELSE n) ELSE lv[q]]

Drop(lv, ptr) == [q \in DOMAIN lv \ {ptr} |-> lv[q]]

\* The block returned at ret covers the header that precedes pointer q.
Reused(h, ret, q) ==
    ret - sizeof_memblock_t < q /\ q - sizeof_memblock_t < ret + GET_SIZE(h, ret - sizeof_memblock_t)

Unreused(h, ret, fr) == {q \in fr : ~Reused(h, ret, q)}

ScenarioZone == heap_end - heap_start = ScenarioLen

BigZone == heap_end - heap_start >= BigLen /\ ~ScenarioZone

\* Request sizes on the scenario zone: the scenario's 16 bytes and a larger one.
ScenarioSizes == {16, 40}

\* Request sizes on the small zone: zero, one that ALIGN4 rounds up, one that
\* splits, the whole zone, and one past MALLOC_MAX_SIZE.
FineSizes == {0, 5, 24, SmallLen - 2 * sizeof_memblock_t, MALLOC_MAX_SIZE + 1}

\* On the scenario zone and the large zone a caller holds a bounded number of
\* blocks at a time.
Room == Cardinality(DOMAIN live) < (IF ScenarioZone THEN MaxHeld ELSE MaxBigHeld)

\* Sizes every call rejects: zero and one past MALLOC_MAX_SIZE.
BadSizes == {0, MALLOC_MAX_SIZE + 1}

\* A zone a word longer than the small one: its blocks are not all multiples
\* of 8 bytes, so a split can leave 12 bytes.
LongZone == heap_end - heap_start = SmallLen + W

\* The requests the split threshold is tried with on that zone: the payload
\* of the whole zone, and of what a minimum block leaves of it, less one byte
\* short of a header plus a minimum block.
EdgeSizes ==
    {room - (sizeof_memblock_t + MALLOC_MIN_SIZE - 1) :
        room \in {SmallLen + W - 2 * sizeof_memblock_t,
                  SmallLen + W - 2 * sizeof_memblock_t
                      - (sizeof_memblock_t + MALLOC_MIN_SIZE)}}

\* malloc(size) arguments.  On the large zone: a minimum block, or the rest,
\* or a size the call rejects.
MallocSizes == IF ScenarioZone
               THEN IF Room THEN ScenarioSizes ELSE {}
               ELSE IF BigZone
               THEN (IF Room THEN {MALLOC_MIN_SIZE, BigLen - 4 * sizeof_memblock_t}
                     ELSE {}) \cup BadSizes
               ELSE IF LongZone THEN FineSizes \cup EdgeSizes
               ELSE FineSizes

\* A request that ALIGN4 leaves below MALLOC_MIN_SIZE.
TinySizes == {W - 1}

\* realloc(ptr, size) arguments.  On the large zone a caller gives back the
\* smallest tail that split_block turns into a block of its own, or all but
\* a few bytes of a block larger than the minimum.
ReallocSizes(ptr) ==
    IF ~BigZone THEN FineSizes
    ELSE IF ptr = NULL THEN {MALLOC_MAX_SIZE + 1}
    ELSE {n \in {live[ptr] - (sizeof_memblock_t + MALLOC_MIN_SIZE)} : n > 0}
             \cup {n \in TinySizes : live[ptr] > MALLOC_MIN_SIZE}
             \cup {MALLOC_MAX_SIZE + 1}

\* calloc(nmemb, size) arguments.
CallocArgs == IF BigZone
              THEN {<<65536, 65536>>}
              ELSE {<<0, 8>>, <<1, 5>>, <<2, 12>>, <<65536, 65536>>,
                    <<8, 536870913>>}

\* Values a caller stores in its payload words: zero, and a word that reads as
\* a size of 32 bytes with the used flag.
DataVals == {0, 33}

\* Values found in the word that follows the zone.
OutsideVals == {0, 9}

Owned == DOMAIN live

NoCall == [ptr |-> NULL]

\* What a call that returned (or panicked) leaves behind.
Effect(h, op, ptr, size, ret) ==
    /\ mem' = h.mem
    /\ free_blocks_count' = h.cnt
    /\ panicked' = h.panic
    /\ faulted' = h.fault
    /\ last' = [op |-> op, ptr |-> ptr, size |-> size,
                ret |-> IF Halted(h) THEN NULL ELSE ret,
                bad |-> h.bad, crit |-> h.crit, low |-> h.low,
                cnt0 |-> free_blocks_count]
    /\ UNCHANGED <<first_free, heap_start, heap_end, writes>>

Done(h, op, ptr, size, ret) ==
    /\ Effect(h, op, ptr, size, ret)
    /\ UNCHANGED pending

\* asked after a call: ret (when not NULL) was returned by malloc(n), or by
\* another operation when n = 0; pointers no longer owned are dropped.
Asked(ret, n) ==
    asked' = [q \in DOMAIN live' |->
                 IF q = ret THEN n ELSE IF q \in DOMAIN asked THEN asked[q] ELSE 0]

\* The pointer a call handed to its caller, NULL when it failed or panicked.
Got(r) == IF Halted(r.h) THEN NULL ELSE r.ret

\* Pointers a caller may pass: those owned, but not the one a preempted
\* realloc of another task is working on.
Usable == DOMAIN live \ {pending.ptr}

\* Bookkeeping of a call that behaved as malloc(n) and returned ret.
TookBlock(h, ret, n) ==
    IF Halted(h) \/ ret = NULL
    THEN UNCHANGED <<live, freed>>
    ELSE /\ live' = Given(live, ret, ALIGN4(n))
         /\ freed' = Unreused(h, ret, freed)

\* Bookkeeping of a call that behaved as free(ptr).
GaveBlock(h, ptr) ==
    IF Halted(h) \/ ptr = NULL
    THEN UNCHANGED <<live, freed>>
    ELSE /\ live' = Drop(live, ptr)
         /\ freed' = freed \cup {ptr}

\* Exploration stops where free_blocks_count has wrapped below zero.
Running == ~panicked /\ ~faulted /\ free_blocks_count >= 0

MallocOp ==
    /\ Running
    /\ \E size \in MallocSizes :
         \E r \in {malloc(Machine(0), size)} :
             /\ Done(r.h, "malloc", NULL, size, r.ret)
             /\ TookBlock(r.h, r.ret, size)
             /\ Asked(Got(r), size)

\* free(ptr) arguments.  On the large zone the caller frees a block only
\* while none of its earlier frees is outstanding.
FreePtrs == IF BigZone /\ freed # {} THEN {NULL} ELSE Usable \cup {NULL}

FreeOp ==
    /\ Running
    /\ \E ptr \in FreePtrs :
         \E h \in {free(Machine(0), ptr)} :
             /\ Done(h, "free", ptr, IF ptr = NULL THEN 0 ELSE asked[ptr], NULL)
             /\ GaveBlock(h, ptr)
             /\ Asked(NULL, 0)

\* The bytes calloc(a[1], a[2]) asks malloc for; 0 when its guard rejects.
CallocBytes(a) ==
    IF a[1] # 0 /\ a[2] > MALLOC_MAX_SIZE \div a[1] THEN 0 ELSE a[1] * a[2]

CallocOp ==
    /\ Running
    /\ \E a \in CallocArgs :
         \E r \in {calloc(Machine(0), a[1], a[2])} :
             /\ Done(r.h, "calloc", a[1], a[2], r.ret)
             /\ TookBlock(r.h, r.ret, CallocBytes(a))
             /\ Asked(Got(r), 0)

\* Bookkeeping of realloc(ptr, size) that came back as r.
ReallocBooked(r, ptr, size) ==
    IF size > MALLOC_MAX_SIZE THEN UNCHANGED <<live, freed>>
    ELSE IF ptr = NULL THEN TookBlock(r.h, r.ret, size)
    ELSE IF size = 0 THEN GaveBlock(r.h, ptr)
    ELSE IF Halted(r.h) \/ r.ret = NULL THEN UNCHANGED <<live, freed>>
    ELSE IF r.ret = ptr
    THEN /\ live' = [live EXCEPT ![ptr] = ALIGN4(size)]
         /\ freed' = Unreused(r.h, ptr, freed)
    ELSE /\ live' = Given(Drop(live, ptr), r.ret, ALIGN4(size))
         /\ freed' = Unreused(r.h, r.ret, freed \cup {ptr})

ReallocOp ==
    /\ Running
    /\ \E ptr \in Usable \cup {NULL} : \E size \in ReallocSizes(ptr) :
         \E r \in {realloc(Machine(0), ptr, size)} :
             /\ Done(r.h, "realloc", ptr, size, r.ret)
             /\ ReallocBooked(r, ptr, size)
             /\ Asked(Got(r), 0)

\* realloc(ptr, size) runs outside any critical section up to its stores. A
\* task is preempted right after the test of lines 292-294 came out true: the
\* call is in flight, holding the successor and the size sum it computed.
ReallocTest ==
    /\ Running
    /\ pending = NoCall
    /\ \E ptr \in Usable : \E size \in ReallocSizes(ptr) :
         LET old_block == ptr - sizeof_memblock_t
             h0        == Machine(0)
         IN  /\ size # 0 /\ size <= MALLOC_MAX_SIZE
             /\ validate_block(h0, old_block) /\ IS_USED(h0, old_block) = 1
             /\ ALIGN4(size) > GET_SIZE(h0, old_block)
             /\ GrowsInPlace(h0, old_block, ALIGN4(size))
             /\ pending' = [ptr  |-> ptr, size |-> size,
                            nxt  |-> NextOf(h0, old_block),
                            sum  |-> GET_SIZE(h0, old_block) + sizeof_memblock_t
                                        + GET_SIZE(h0, NextOf(h0, old_block))]
             /\ last' = [op |-> "test", ptr |-> ptr, size |-> size, ret |-> NULL,
                         bad |-> FALSE, crit |-> 0, low |-> FALSE,
                         cnt0 |-> free_blocks_count]
             /\ UNCHANGED <<mem, first_free, heap_start, heap_end, free_blocks_count,
                            live, freed, asked, writes, panicked, faulted>>

\* The preempted task runs again and realloc goes on from line 295. The
\* values of old_block->next and of the size sum are those of the test (kept
\* in registers) or are loaded again: the compiler may do either.
ReallocResume ==
    /\ Running
    /\ pending # NoCall
    /\ \E kept \in BOOLEAN :
         LET ptr       == pending.ptr
             old_block == ptr - sizeof_memblock_t
             h0        == Machine(0)
             nxt       == IF kept THEN pending.nxt ELSE NextOf(h0, old_block)
             sum       == IF kept THEN pending.sum
                          ELSE GET_SIZE(h0, old_block) + sizeof_memblock_t
                                   + GET_SIZE(h0, nxt)
         IN  \E r \in {ReallocGrow(h0, old_block, ALIGN4(pending.size), nxt, sum)} :
                 /\ Effect(r.h, "realloc", ptr, pending.size, r.ret)
                 /\ pending' = NoCall
                 /\ ReallocBooked(r, ptr, pending.size)
                 /\ Asked(Got(r), 0)

\* A caller stores a value in a word of a payload it owns.
WriteOp ==
    /\ Running
    /\ writes < MaxWrites
    /\ \E p \in Owned, a \in DOMAIN mem, v \in DataVals :
         /\ a >= p /\ a < p + live[p]
         /\ mem[a] # v
         /\ mem' = [mem EXCEPT ![a] = v]
         /\ writes' = writes + 1
         /\ last' = [op |-> "write", ptr |-> NULL, size |-> 0, ret |-> NULL,
                     bad |-> FALSE, crit |-> 0, low |-> FALSE,
                     cnt0 |-> free_blocks_count]
         /\ UNCHANGED <<first_free, heap_start, heap_end, free_blocks_count,
                        live, freed, asked, pending, panicked, faulted>>

\* free() of a pointer that was freed before and whose header address no
\* allocation has covered since.
FreeStale ==
    /\ Running
    /\ \E ptr \in freed \ Owned :
         \E h \in {free(Machine(0), ptr)} :
             /\ Done(h, "free", ptr, 0, NULL)
             /\ UNCHANGED <<live, freed, asked>>

\* free() of a pointer no caller owns: anywhere around the zone, aligned or not.
WildPtrs == {a \in (heap_start - W)..(heap_end + sizeof_memblock_t) : a % 2 = 0 /\ a # NULL}

FreeWild ==
    /\ Running
    /\ free_blocks_count < MaxWildCount
    /\ \E ptr \in WildPtrs \ Owned, outside \in OutsideVals :
         \E h \in {free(Machine(outside), ptr)} :
             /\ Done(h, "free", ptr, 0, NULL)
             /\ UNCHANGED <<live, freed, asked>>

InitWith(len) ==
    \E b \in {mo_heap_init(Boot(ZoneBase, len), ZoneBase, len)} :
        /\ mem = b.mem
        /\ first_free = b.first_free
        /\ heap_start = b.heap_start
        /\ heap_end = b.heap_end
        /\ free_blocks_count = b.cnt
        /\ live = << >>
        /\ freed = {}
        /\ asked = << >>
        /\ pending = NoCall
        /\ writes = 0
        /\ panicked = FALSE
        /\ faulted = FALSE
        /\ last = [op |-> "init", ptr |-> ZoneBase, size |-> len, ret |-> NULL,
                   bad |-> FALSE, crit |-> 0, low |-> FALSE,
                   cnt0 |-> 0]

Init == InitWith(SmallLen)
InitBig == InitWith(BigLen)
InitScenario == InitWith(ScenarioLen)

\* mo_heap_init(zone, len) arguments around the small zone: a multiple of W
\* and its two neighbours.
InitLens == {SmallLen - 1, SmallLen, SmallLen + 1}

InitAnyLen == \E len \in InitLens : InitWith(len)

Next == MallocOp \/ FreeOp \/ CallocOp \/ ReallocOp \/ WriteOp \/ FreeStale

NextWild == MallocOp \/ FreeOp \/ WriteOp \/ FreeWild

\* The small zone under every kind of request.
Spec == Init /\ [][Next]_vars

\* The large zone, where free_blocks_count can pass COALESCE_THRESHOLD; the
\* callers there allocate, shrink and free without storing into payloads.
NextBig == MallocOp \/ FreeOp \/ CallocOp \/ ReallocOp

SpecBig == InitBig /\ [][NextBig]_vars

\* The scenario zone with callers that only allocate and free.
NextScenario == MallocOp \/ FreeOp

SpecScenario == InitScenario /\ [][NextScenario]_vars

\* Zones of several lengths with callers that allocate, free and resize.
NextLens == MallocOp \/ FreeOp \/ ReallocOp

SpecLens == InitAnyLen /\ [][NextLens]_vars

\* The small zone with several tasks: a task inside realloc may be
\* preempted after the grow test while the others allocate, free and
\* reallocate their own pointers.
NextTasks == MallocOp \/ FreeOp \/ ReallocOp \/ ReallocTest \/ ReallocResume

SpecTasks == Init /\ [][NextTasks]_vars

\* The small zone with callers that allocate, store, free, and also free
\* pointers they do not own.
SpecWild == Init /\ [][NextWild]_vars

--------------------------------------------------------------------------
(* The block list as the properties below read it from memory. *)

WordIn(m, a) == IF a \in DOMAIN m THEN m[a] ELSE 0
SizeIn(m, b) == WordIn(m, b + W) - (WordIn(m, b + W) % 2)
Word(a) == WordIn(mem, a)
PayloadSize(b) == SizeIn(mem, b)
Used(b) == Word(b + W) % 2 = 1
Sentinel == heap_end - sizeof_memblock_t

\* The headers met from b on by following next, at most fuel of them.
RECURSIVE Walk(_, _)
Walk(b, fuel) ==
    IF b = NULL \/ fuel = 0 THEN << >>
    ELSE Bind(Word(b), LAMBDA n : <<b>> \o Walk(n, fuel - 1))

Headers == Walk(first_free, Cardinality(DOMAIN mem) + 1)

HeaderSet == {Headers[i] : i \in 1..Len(Headers)}

FreeHeaders == {i \in 1..Len(Headers) : ~Used(Headers[i])}

RECURSIVE SumBytes(_)
SumBytes(i) ==
    IF i = 0 THEN 0
    ELSE sizeof_memblock_t + PayloadSize(Headers[i]) + SumBytes(i - 1)

PublicOp == last.op \in {"malloc", "free", "realloc", "calloc"}

Completed == PublicOp /\ ~panicked /\ ~faulted

ListWalkOK ==
    /\ Len(Headers) >= 1
    /\ Headers[Len(Headers)] = Sentinel
    /\ Word(Sentinel) = NULL
    /\ \A i \in 1..Len(Headers) :
         /\ Headers[i] >= heap_start /\ Headers[i] < heap_end
         /\ Headers[i] % W = 0
         /\ (i < Len(Headers) =>
               Headers[i] + sizeof_memblock_t + PayloadSize(Headers[i]) = Headers[i + 1])


\* No free header of the list has a payload of n bytes or more.
NoFit(n) ==
    \A i \in 1..Len(Headers) : Used(Headers[i]) \/ PayloadSize(Headers[i]) < n

ValidSize(n) == n # 0 /\ n <= MALLOC_MAX_SIZE

Normalized(n) == max(ALIGN4(n), MALLOC_MIN_SIZE)

HeapUnchanged == mem' = mem /\ free_blocks_count' = free_blocks_count

--------------------------------------------------------------------------
(* C1..C10 *)

\* C1: malloc(size) with a valid size that no free block of the list can hold
\* returns NULL to its caller: it neither panics nor fails to return.
C1_ExhaustionReturnsNull ==
    [][(last'.op = "malloc" /\ ValidSize(last'.size) /\ NoFit(Normalized(last'.size)))
          => (~panicked' /\ ~faulted' /\ last'.ret = NULL)]_vars

\* C2: after every completed public operation no two headers adjacent in the
\* block list are both free.
C2_NoAdjacentFree ==
    Completed =>
        \A i \in 1..(Len(Headers) - 1) : Used(Headers[i]) \/ Used(Headers[i + 1])

\* C3: after every completed public operation free_blocks_count equals the
\* number of headers of the block list whose used flag is clear.
C3_CountIsExact ==
    Completed => free_blocks_count = Cardinality(FreeHeaders)

\* C4: after every completed public operation the walk from the head reaches
\* the terminal sentinel over word-aligned headers inside the zone, each
\* non-terminal header ending exactly where its successor begins.
C4_ListWalk ==
    Completed => ListWalkOK

\* C5: after every completed public operation the headers of the block list,
\* sentinel included, account for every byte of the zone.
C5_TotalBytes ==
    Completed => SumBytes(Len(Headers)) = heap_end - heap_start

\* C6: a successful malloc(n) returns a word-aligned pointer inside the zone
\* whose block holds at least the normalized size and overlaps neither the
\* sentinel nor the header or bytes of any allocation live at that moment.
C6_FreshBlock ==
    [][(last'.op = "malloc" /\ last'.ret # NULL) =>
          LET ret == last'.ret
              end == ret + SizeIn(mem', ret - sizeof_memblock_t)
          IN  /\ ret % W = 0
              /\ ret - sizeof_memblock_t >= heap_start
              /\ end <= Sentinel
              /\ end - ret >= Normalized(last'.size)
              /\ \A q \in Owned :
                    end <= q - sizeof_memblock_t \/ q + live[q] <= ret]_vars

\* C7: free(ptr) of a pointer that was freed before, its header address not
\* covered by any allocation since, panics and changes no header and not the
\* counter.
C7_DoubleFreePanics ==
    [][(last'.op = "free" /\ last'.ptr \in freed \ Owned)
          => (panicked' /\ HeapUnchanged)]_vars

\* C8: free(ptr) changes heap state only when ptr - sizeof(H) is a header of
\* the block list with its used flag set; for any other non-null pointer it
\* panics and leaves the memory and the counter as they were.
C8_WildFreePanics ==
    [][(/\ last'.op = "free"
        /\ last'.ptr # NULL
        /\ ~(last'.ptr - sizeof_memblock_t \in HeaderSet
               /\ Used(last'.ptr - sizeof_memblock_t)))
          => (panicked' /\ HeapUnchanged)]_vars

\* realloc(ptr, size) has to relocate: the aligned size exceeds the block's
\* payload and the block cannot grow into a free successor.
MustRelocate(ptr, size) ==
    LET b   == ptr - sizeof_memblock_t
        nxt == Word(b)
    IN  /\ ALIGN4(size) > PayloadSize(b)
        /\ ~(nxt # NULL /\ ~Used(nxt) /\
             PayloadSize(b) + sizeof_memblock_t + PayloadSize(nxt) >= ALIGN4(size))

\* C9: when realloc(ptr, size) of a live pointer must relocate and no free
\* block can hold size, it returns NULL and the original block stays used,
\* with its address, payload size and payload bytes as before the call.
C9_FailedRelocateKeepsBlock ==
    [][(/\ last'.op = "realloc"
        /\ last'.ptr \in Owned
        /\ last'.ptr - sizeof_memblock_t \in HeaderSet
        /\ Used(last'.ptr - sizeof_memblock_t)
        /\ ValidSize(last'.size)
        /\ MustRelocate(last'.ptr, last'.size)
        /\ NoFit(ALIGN4(last'.size)))
          => (/\ ~panicked' /\ ~faulted'
              /\ last'.ret = NULL
              /\ mem' = mem)]_vars

\* C10: every write of a public operation to a header word or to
\* free_blocks_count happens inside a critical section the operation entered.
C10_WritesInsideCriticalSection ==
    PublicOp => ~last.bad

--------------------------------------------------------------------------
(* C11..C20 *)

\* C11: on every path of a public operation that returns, each
\* CRITICAL_LEAVE was preceded by a matching CRITICAL_ENTER of the same call:
\* the call issued no leave it had not entered, and it returns with as many
\* enters as leaves.
C11_CriticalSectionBalanced ==
    Completed => (~last.low /\ last.crit = 0)

\* C12: with tasks preempted outside critical sections, a realloc that was
\* preempted takes effect atomically: when it returns, the heap, the counter
\* and its result are those of the same call run without preemption from the
\* state it resumed in, so it absorbs no block another task took meanwhile.
C12_ReallocAtomic ==
    [][(pending # NoCall /\ pending' = NoCall) =>
          \A r \in {realloc(Machine(0), pending.ptr, pending.size)} :
              /\ mem' = r.h.mem
              /\ free_blocks_count' = r.h.cnt
              /\ panicked' = r.h.panic
              /\ last'.ret = Got(r)]_vars

\* C13: when free(p) of a live pointer p that malloc(n) returned has
\* completed and the very next call is malloc(n) with the same n, that malloc
\* returns a pointer and does not panic.
C13_FreeThenAllocSucceeds ==
    [][(/\ last.op = "free" /\ last.ptr # NULL /\ last.size # 0
        /\ ~panicked /\ ~faulted
        /\ last'.op = "malloc" /\ last'.size = last.size)
          => (last'.ret # NULL /\ ~panicked' /\ ~faulted')]_vars

\* The layout mo_heap_init leaves: one free block over the whole zone, then
\* the sentinel, and a counter of 1.
PostInit ==
    /\ Headers = <<heap_start, Sentinel>>
    /\ ~Used(heap_start)
    /\ PayloadSize(heap_start) = (heap_end - heap_start) - 2 * sizeof_memblock_t
    /\ Used(Sentinel) /\ PayloadSize(Sentinel) = 0 /\ Word(Sentinel) = NULL
    /\ free_blocks_count = 1

\* C14: with callers that only allocate and free, whenever every block
\* obtained has been freed again, in whatever order, the heap is back in the
\* layout init left: one free block of the zone's length less two headers,
\* the sentinel, and free_blocks_count = 1.
C14_FreeAllRestoresInit ==
    (Owned = {} /\ ~panicked /\ ~faulted) => PostInit

\* Three blocks or more were obtained and all of them freed.
C14_Witness ==
    /\ last.op = "free" /\ last.ptr # NULL /\ ~panicked
    /\ Owned = {} /\ Cardinality(freed) >= 3
    /\ PostInit

\* The spec's scenario step: mo_heap_init(R, 256) has just run and the next
\* call is malloc(16).
ScenarioFirstAlloc ==
    /\ last.op = "init" /\ last.size = ScenarioLen
    /\ last'.op = "malloc" /\ last'.size = 16

\* What both readings of the scenario agree on: init left one free block of
\* 240 bytes with a counter of 1, malloc(16) succeeded, and the only free
\* block after it is the remainder, of 216 bytes.
ScenarioLayout ==
    /\ PostInit /\ PayloadSize(heap_start) = 240
    /\ last'.ret = heap_start + sizeof_memblock_t
    /\ ~panicked' /\ ~faulted'
    /\ WordIn(mem', heap_start + W) = 16 + 1
    /\ WordIn(mem', heap_start) = last'.ret + 16
    /\ WordIn(mem', last'.ret + 16) = Sentinel
    /\ WordIn(mem', last'.ret + 16 + W) = 216

\* C20 as stated: after init(R, 256) one free block of payload 240 and
\* free_blocks = 1; after the following allocate(16) the call has succeeded,
\* free_blocks = 2, and the remaining free block has payload 216.
C20_ScenarioAsStated ==
    [][ScenarioFirstAlloc => (ScenarioLayout /\ free_blocks_count' = 2)]_vars

\* C20 amended: the same scenario, with free_blocks = 1 after allocate(16):
\* split_block counts the remainder and malloc then discounts the block it
\* hands out.
C20_ScenarioFirstAlloc ==
    [][ScenarioFirstAlloc => (ScenarioLayout /\ free_blocks_count' = 1)]_vars

\* The state after the scenario's first allocate(16).
C20_Witness ==
    /\ heap_end - heap_start = ScenarioLen
    /\ last.op = "malloc" /\ last.size = 16 /\ last.ret = heap_start + sizeof_memblock_t
    /\ freed = {} /\ Owned = {last.ret}
    /\ free_blocks_count = 1
    /\ ~Used(last.ret + 16) /\ PayloadSize(last.ret + 16) = 216

\* C15: a successful realloc(p, n) of a live p with n > 0 returns a payload
\* whose first min(old, n) bytes are those p's payload had before the call,
\* old being the payload size of p's block before the call; whichever of the
\* four paths (no-op, shrink, grow into next, relocate) the call takes.
C15_ReallocKeepsData ==
    [][(/\ last'.op = "realloc"
        /\ last'.ptr \in Owned
        /\ ValidSize(last'.size)
        /\ last'.ret # NULL
        /\ ~panicked' /\ ~faulted')
          => \A k \in 0..(min(PayloadSize(last'.ptr - sizeof_memblock_t),
                              last'.size) - 1) :
                 k % W = 0 =>
                     WordIn(mem', last'.ret + k) = Word(last'.ptr + k)]_vars

\* A realloc has moved a block whose first word the caller had set to 33.
C15_Witness ==
    /\ last.op = "realloc" /\ last.ptr # NULL /\ last.size # 0
    /\ last.ret # NULL /\ last.ret # last.ptr
    /\ ~panicked /\ ~faulted
    /\ Word(last.ret) = 33

\* The headers met from b on by following next in the memory m, at most fuel
\* of them.
RECURSIVE WalkIn(_, _, _)
WalkIn(m, b, fuel) ==
    IF b = NULL \/ fuel = 0 THEN << >>
    ELSE Bind(WordIn(m, b), LAMBDA n : <<b>> \o WalkIn(m, n, fuel - 1))

\* The memory malloc's search runs on: the heap after the sweep malloc runs
\* first when free_blocks_count exceeds the threshold, the heap as it is
\* otherwise.
SearchedMem ==
    IF U32_GT(free_blocks_count, COALESCE_THRESHOLD)
    THEN selective_coalesce(CRITICAL_ENTER(Machine(0))).mem
    ELSE mem

\* The headers of the list in m that are free and hold at least n bytes.
FittingIn(m, n) ==
    LET hs == WalkIn(m, first_free, Cardinality(DOMAIN m) + 1)
    IN  {hs[i] : i \in {j \in 1..Len(hs) :
                          /\ WordIn(m, hs[j] + W) % 2 = 0
                          /\ SizeIn(m, hs[j]) >= n}}

\* C16: a successful malloc(size) returns the payload of the lowest-addressed
\* header of the block list, as the list stands after the sweep the call may
\* run first, that is free and holds at least the normalized size: no free
\* fitting block at a lower address is skipped.
C16_FirstFit ==
    [][(/\ last'.op = "malloc"
        /\ last'.ret # NULL
        /\ ~panicked' /\ ~faulted')
          => \A fits \in {FittingIn(SearchedMem, Normalized(last'.size))} :
                 /\ last'.ret - sizeof_memblock_t \in fits
                 /\ \A b \in fits : b >= last'.ret - sizeof_memblock_t]_vars

\* A malloc has succeeded past a free block at a lower address that was too
\* small for it.
C16_Witness ==
    /\ last.op = "malloc" /\ last.ret # NULL /\ ~panicked /\ ~faulted
    /\ \E b \in HeaderSet :
         /\ b < last.ret - sizeof_memblock_t
         /\ ~Used(b)
         /\ PayloadSize(b) < Normalized(last.size)

\* The call just made is one the allocator rejects for its arguments:
\* malloc(0), malloc or realloc of more than MALLOC_MAX_SIZE bytes, or a calloc
\* whose product passes MALLOC_MAX_SIZE (calloc is logged with nmemb as ptr).
RejectedCall(l) ==
    \/ l.op = "malloc" /\ ~ValidSize(l.size)
    \/ l.op = "realloc" /\ l.size > MALLOC_MAX_SIZE
    \/ l.op = "calloc" /\ l.ptr # 0 /\ l.size > MALLOC_MAX_SIZE \div l.ptr

\* C17: a call rejected for its arguments (malloc(0), malloc(size > max),
\* realloc(ptr, size > max) for any ptr, calloc whose product overflows the
\* guard) returns NULL and leaves every header, free_blocks_count and the
\* zone bounds as they were; also when free_blocks_count > 8, so no sweep ran.
C17_RejectedCallsChangeNothing ==
    [][RejectedCall(last') =>
          /\ last'.ret = NULL
          /\ ~panicked' /\ ~faulted'
          /\ HeapUnchanged
          /\ UNCHANGED <<first_free, heap_start, heap_end>>]_vars

\* A realloc of a live pointer was rejected for its size while
\* free_blocks_count was above the threshold, and the counter still is.
C17_Witness ==
    /\ last.op = "realloc" /\ last.ptr \in Owned /\ last.size > MALLOC_MAX_SIZE
    /\ last.ret = NULL /\ ~panicked /\ ~faulted
    /\ Used(last.ptr - sizeof_memblock_t)
    /\ free_blocks_count > COALESCE_THRESHOLD

\* The mathematical product n * s exceeds MALLOC_MAX_SIZE (said without
\* forming a product that may not fit an integer of the checker).
ProductExceedsMax(n, s) == n # 0 /\ s > MALLOC_MAX_SIZE \div n

\* C18: a calloc(nmemb, size) whose mathematical product exceeds
\* MALLOC_MAX_SIZE returns NULL without calling malloc (nothing changes, no
\* critical section is entered); when the guard passes, the 32-bit product
\* and its round-up to W are the mathematical values, and a block obtained
\* holds at least nmemb * size bytes.  calloc is logged with nmemb as ptr.
C18_CallocOverflowGuard ==
    [][last'.op = "calloc" =>
          IF ProductExceedsMax(last'.ptr, last'.size)
          THEN /\ last'.ret = NULL
               /\ ~panicked' /\ ~faulted'
               /\ HeapUnchanged
               /\ last'.crit = 0 /\ ~last'.low
          ELSE /\ Mul32(last'.ptr, last'.size) = last'.ptr * last'.size
               /\ ALIGN4(Mul32(last'.ptr, last'.size)) >= last'.ptr * last'.size
               /\ ALIGN4(Mul32(last'.ptr, last'.size)) < last'.ptr * last'.size + W
               /\ (last'.ret # NULL =>
                       SizeIn(mem', last'.ret - sizeof_memblock_t)
                           >= last'.ptr * last'.size)]_vars

\* A calloc of 8 elements of 2^29 + 1 bytes, whose 32-bit product is 8, was
\* turned down.
C18_Witness ==
    /\ last.op = "calloc" /\ last.ptr = 8 /\ last.size = 536870913
    /\ Mul32(last.ptr, last.size) = 8
    /\ last.ret = NULL /\ ~panicked /\ ~faulted

\* C19: mo_heap_init(zone, len) rounds len down to a multiple of W, so the
\* sentinel header and heap_end lie within the len bytes the caller gave,
\* whether or not len is a multiple of W (init is logged with zone as ptr and
\* len as size).
C19_InitWithinLength ==
    last.op = "init" =>
        /\ heap_start = last.ptr
        /\ heap_end - heap_start = last.size - (last.size % W)
        /\ Sentinel + sizeof_memblock_t <= last.ptr + last.size
        /\ heap_end <= last.ptr + last.size

--------------------------------------------------------------------------
(* C21..C30 *)

\* The call just made is a realloc of a pointer the caller holds, with a size
\* realloc accepts and does not treat as a free.
ReallocOfLive ==
    /\ last'.op = "realloc"
    /\ last'.ptr \in Owned
    /\ ValidSize(last'.size)

\* C21: realloc(ptr, size) of a live ptr whose rounded size is at most the old
\* payload and leaves less than a header plus a minimum block returns ptr and
\* changes no header, no payload byte and not free_blocks_count.
C21_ReallocNoOp ==
    [][(/\ ReallocOfLive
        /\ ALIGN4(last'.size) <= PayloadSize(last'.ptr - sizeof_memblock_t)
        /\ PayloadSize(last'.ptr - sizeof_memblock_t) - ALIGN4(last'.size)
               < sizeof_memblock_t + MALLOC_MIN_SIZE)
          => (/\ last'.ret = last'.ptr
              /\ ~panicked' /\ ~faulted'
              /\ HeapUnchanged)]_vars

\* The positions in the block list of the headers whose block covers the
\* payload address q.
Covering(q) ==
    {i \in 1..Len(Headers) :
        /\ Headers[i] + sizeof_memblock_t <= q
        /\ q < Headers[i] + sizeof_memblock_t + PayloadSize(Headers[i])}

\* C22: right after free(ptr) of a live pointer has completed, the free block
\* that holds ptr's former payload has no free neighbour: its predecessor in
\* the list, if any, is used, and so is its successor.
C22_FreedBlockHasNoFreeNeighbour ==
    (last.op = "free" /\ last.ptr # NULL /\ Completed) =>
        /\ Covering(last.ptr) # {}
        /\ \A i \in Covering(last.ptr) :
             /\ ~Used(Headers[i])
             /\ i > 1 => Used(Headers[i - 1])
             /\ i < Len(Headers) => Used(Headers[i + 1])

\* The bytes realloc(ptr, size) can reach by taking in the successor of ptr's
\* block when that successor is free, 0 when it is not.
GrowRoom(ptr) ==
    LET b   == ptr - sizeof_memblock_t
        nxt == Word(b)
    IN  IF nxt # NULL /\ ~Used(nxt)
        THEN PayloadSize(b) + sizeof_memblock_t + PayloadSize(nxt)
        ELSE 0

\* C23: realloc(ptr, size) of a live ptr with size above the old payload and a
\* free successor that makes up the difference returns ptr; afterwards the
\* block is used and holds at least size bytes, a leftover of a header plus a
\* minimum block or more is a free block right after it, and
\* free_blocks_count is the number of free headers.
C23_GrowIntoNext ==
    [][(/\ ReallocOfLive
        /\ ALIGN4(last'.size) > PayloadSize(last'.ptr - sizeof_memblock_t)
        /\ GrowRoom(last'.ptr) >= ALIGN4(last'.size))
          => (/\ last'.ret = last'.ptr
              /\ ~panicked' /\ ~faulted'
              /\ WordIn(mem', last'.ptr - sizeof_memblock_t + W) % 2 = 1
              /\ SizeIn(mem', last'.ptr - sizeof_memblock_t) >= last'.size
              /\ (GrowRoom(last'.ptr) - ALIGN4(last'.size)
                      >= sizeof_memblock_t + MALLOC_MIN_SIZE
                    => /\ WordIn(mem', last'.ptr - sizeof_memblock_t)
                              = last'.ptr + ALIGN4(last'.size)
                       /\ WordIn(mem', last'.ptr + ALIGN4(last'.size) + W) % 2 = 0)
              /\ (free_blocks_count = Cardinality(FreeHeaders))')]_vars

\* The header, the size and the old payload of the block a successful call has
\* just run split_block on: malloc on the block it returns (no sweep having
\* run first), realloc's shrink path on the used block of a live pointer.
SplitByMalloc ==
    /\ last'.op = "malloc" /\ last'.ret # NULL
    /\ ~panicked' /\ ~faulted'
    /\ ~U32_GT(free_blocks_count, COALESCE_THRESHOLD)

SplitByRealloc ==
    /\ ReallocOfLive /\ last'.ret # NULL
    /\ ~panicked' /\ ~faulted'
    /\ Used(last'.ptr - sizeof_memblock_t)
    /\ ALIGN4(last'.size) <= PayloadSize(last'.ptr - sizeof_memblock_t)
    /\ PayloadSize(last'.ptr - sizeof_memblock_t) - ALIGN4(last'.size)
           >= sizeof_memblock_t + MALLOC_MIN_SIZE
    /\ ~U32_GT(free_blocks_count, COALESCE_THRESHOLD - 1)

\* What split_block(b, n) did between this state and the next, took being 1
\* when the caller is malloc (which then flags b used and discounts it) and 0
\* when it is realloc.
SplitEffect(b, n, took) ==
    IF PayloadSize(b) - n >= sizeof_memblock_t + MALLOC_MIN_SIZE
    THEN /\ SizeIn(mem', b) = n
         /\ WordIn(mem', b + W) % 2 = (IF took = 1 THEN 1 ELSE Word(b + W) % 2)
         /\ WordIn(mem', b) = b + sizeof_memblock_t + n
         /\ WordIn(mem', b + sizeof_memblock_t + n) = Word(b)
         /\ WordIn(mem', b + sizeof_memblock_t + n + W)
                = PayloadSize(b) - n - sizeof_memblock_t
         /\ free_blocks_count' = free_blocks_count + 1 - took
         /\ \A a \in DOMAIN mem \ {b, b + W, b + sizeof_memblock_t + n,
                                   b + sizeof_memblock_t + n + W} :
                mem'[a] = mem[a]
    ELSE /\ SizeIn(mem', b) = PayloadSize(b)
         /\ free_blocks_count' = free_blocks_count - took
         /\ \A a \in DOMAIN mem \ {b + W} : mem'[a] = mem[a]

\* C24: split_block(b, size) installs a new free header exactly when
\* payload_size(b) - size >= sizeof(memblock_t) + MALLOC_MIN_SIZE; otherwise b
\* keeps its size and no header or counter changes.  A split keeps b's used
\* flag, makes b's payload size, gives the new block the remainder less a
\* header and b's old next, and adds one to free_blocks_count.  So a malloc
\* of payload_size(b) - 15 from a free block b hands out b whole.
C24_SplitThreshold ==
    [][/\ SplitByMalloc =>
            SplitEffect(last'.ret - sizeof_memblock_t, Normalized(last'.size), 1)
       /\ SplitByRealloc =>
            SplitEffect(last'.ptr - sizeof_memblock_t, ALIGN4(last'.size), 0)]_vars

\* A malloc of a block's payload less 15 bytes has handed the block out whole,
\* with 12 bytes to spare.
C24_Witness ==
    /\ last.op = "malloc" /\ last.ret # NULL /\ ~panicked /\ ~faulted
    /\ last.size = PayloadSize(last.ret - sizeof_memblock_t)
                       - (sizeof_memblock_t + MALLOC_MIN_SIZE - 1)
    /\ Used(last.ret - sizeof_memblock_t)
    /\ PayloadSize(last.ret - sizeof_memblock_t) - ALIGN4(last.size) = 12

\* A malloc with a size it accepts has just returned a block.
MallocDone ==
    /\ last'.op = "malloc" /\ ValidSize(last'.size)
    /\ last'.ret # NULL /\ ~panicked' /\ ~faulted'

\* No two neighbours of the block list are both free.
NoFreePair ==
    \A i \in 1..(Len(Headers) - 1) : Used(Headers[i]) \/ Used(Headers[i + 1])

\* C25: malloc runs the sweep exactly when free_blocks_count > 8 on entry.
\* After a malloc that swept, no two adjacent headers of the whole list are
\* both free; free_blocks_count has fallen by one for each header absorbed
\* (beside malloc's own split and hand-out); and every block that was used,
\* the sentinel included, is where it was with its size and flag.  A malloc
\* entered with free_blocks_count <= 8 absorbs no header.
C25_SweepInMalloc ==
    [][MallocDone =>
          IF U32_GT(free_blocks_count, COALESCE_THRESHOLD)
          THEN /\ NoFreePair'
               /\ free_blocks_count' - free_blocks_count
                      = (Len(Headers') - Len(Headers)) - 1
               /\ \A i \in 1..Len(Headers) :
                      Used(Headers[i]) =>
                          /\ Headers[i] \in HeaderSet'
                          /\ WordIn(mem', Headers[i] + W) = Word(Headers[i] + W)
          ELSE Len(Headers') >= Len(Headers)]_vars

\* A malloc entered with free_blocks_count above the threshold has returned
\* while the caller holds a block that realloc shrank to 8 bytes and whose
\* successor is one free block up to the sentinel: the pieces the
\* shrinks split off have been swept into one.
C25_Witness ==
    /\ last.op = "malloc" /\ last.ret # NULL /\ ~panicked /\ ~faulted
    /\ BigZone
    /\ last.cnt0 > COALESCE_THRESHOLD
    /\ NoFreePair
    /\ \E p \in Owned \ {last.ret} :
         /\ asked[p] = 0 /\ live[p] = MALLOC_MIN_SIZE
         /\ PayloadSize(p - sizeof_memblock_t) = MALLOC_MIN_SIZE
         /\ Word(p - sizeof_memblock_t) = p + MALLOC_MIN_SIZE
         /\ ~Used(p + MALLOC_MIN_SIZE)
         /\ Word(p + MALLOC_MIN_SIZE) = Sentinel
         /\ PayloadSize(p + MALLOC_MIN_SIZE) >= 6 * (sizeof_memblock_t + MALLOC_MIN_SIZE)

\* No block of the list reaches over the sentinel.
SentinelClear ==
    \A b \in HeaderSet \ {Sentinel} :
        b + sizeof_memblock_t + PayloadSize(b) <= Sentinel

\* C26: in every state after mo_heap_init the terminal sentinel, at
\* heap_end - sizeof(memblock_t), has size 0, the used flag and next = NULL;
\* no malloc, calloc or realloc returns its payload; and no call of the
\* allocator (merge, grow or sweep) makes a block reach over it.
C26_SentinelIntact ==
    /\ [](/\ Word(Sentinel) = NULL
          /\ Word(Sentinel + W) = 1
          /\ last.ret # Sentinel + sizeof_memblock_t)
    /\ [][(last'.op \in {"malloc", "free", "realloc", "calloc"} /\ SentinelClear)
             => SentinelClear']_vars

\* The walk from first_free along next meets no header twice.
Acyclic ==
    \A i, j \in 1..Len(Headers) : Headers[i] = Headers[j] => i = j

\* C27: every call of malloc, free, realloc and calloc terminates, in a return
\* or in panic, because the block list stays acyclic: the walks of malloc, of
\* free's predecessor search and of the sweep reach the end of the list or
\* their target (a call that never returns is recorded as faulted).
C27_CallsTerminate ==
    Acyclic /\ ~faulted

\* C28: in a state reached by valid calls in which no allocation is live,
\* the whole zone is available again: malloc of the zone's length less two
\* headers succeeds, the free space being one block and not several adjacent
\* free blocks left by realloc's shrink.
C28_WholeZoneAvailableAgain ==
    [][(/\ Owned = {} /\ ~panicked /\ ~faulted
        /\ last'.op = "malloc"
        /\ last'.size = (heap_end - heap_start) - 2 * sizeof_memblock_t)
          => (/\ Len(Headers) = 2 /\ ~Used(Headers[1])
              /\ last'.ret = heap_start + sizeof_memblock_t
              /\ ~panicked' /\ ~faulted')]_vars

\* The machine malloc's search starts on: inside the critical section, after
\* the sweep if free_blocks_count is above the threshold.
Searched ==
    IF U32_GT(free_blocks_count, COALESCE_THRESHOLD)
    THEN selective_coalesce(CRITICAL_ENTER(Machine(0)))
    ELSE CRITICAL_ENTER(Machine(0))

\* malloc's walk on the machine h comes to a free block of n bytes or more,
\* every header up to and including it passing validate_block: from there on
\* malloc can only panic in split_block or at the decrement of the counter.
ReachesFit(h, n) ==
    \A hs \in {WalkIn(h.mem, first_free, Cardinality(DOMAIN h.mem) + 1)} :
        \E i \in 1..Len(hs) :
            /\ IS_USED(h, hs[i]) = 0 /\ GET_SIZE(h, hs[i]) >= n
            /\ \A j \in 1..i : validate_block(h, hs[j])

\* C29: under valid use these checks never fire: the sweep's validate_block
\* and, once malloc's walk has found its block, split_block's size test and
\* the free_blocks_count underflow test at the decrement; and in free of a
\* live pointer whose own header passes, validate_block on the free
\* predecessor.
C29_DefensiveChecksSilent ==
    [][/\ (last'.op = "malloc" /\ ValidSize(last'.size)) =>
            \A h \in {Searched} :
                (h.panic \/ ReachesFit(h, Normalized(last'.size))) => ~panicked'
       /\ (/\ last'.op = "free" /\ last'.ptr \in Owned
           /\ validate_block(Machine(0), last'.ptr - sizeof_memblock_t)
           /\ Used(last'.ptr - sizeof_memblock_t)) => ~panicked']_vars

\* C30: every header of the list other than the sentinel, used or free, has a
\* payload of at least MALLOC_MIN_SIZE bytes that is a multiple of W; realloc
\* shrinking a block to less than MALLOC_MIN_SIZE leaves no smaller used block.
C30_PayloadAtLeastMin ==
    \A i \in 1..Len(Headers) :
        Headers[i] # Sentinel =>
            /\ PayloadSize(Headers[i]) >= MALLOC_MIN_SIZE
            /\ PayloadSize(Headers[i]) % W = 0

------------------------------------------------------------------------------
(* C31 *)

\* The call just made is malloc or calloc, or free or realloc of a live
\* pointer or of NULL.
ValidCall ==
    /\ last'.op \in {"malloc", "calloc", "free", "realloc"}
    /\ last'.op \in {"free", "realloc"} => last'.ptr \in Owned \cup {NULL}

\* The block of the live pointer q is after the call what it was before: the
\* size word of its header, with the used flag, and every word of its payload.
BlockKept(q) ==
    /\ WordIn(mem', q - sizeof_memblock_t + W) = Word(q - sizeof_memblock_t + W)
    /\ \A k \in 0..(PayloadSize(q - sizeof_memblock_t) - 1) :
           k % W = 0 => WordIn(mem', q + k) = Word(q + k)

\* C31: malloc, calloc, free(p) and realloc(p, n) change no other live
\* allocation q: the size and the used flag in q's header and q's payload
\* bytes are the same before and after the call, for every live q other
\* than p.
C31_OtherBlocksKept ==
    [][ValidCall => \A q \in Owned \ {last'.ptr} : BlockKept(q)]_vars

====
